---- MODULE Spec2Model ----
(***************************************************************************)
(* Model of the restaurant voice-booking session engine:                   *)
(*   backend/websocket.js        (WebSocketServer: connection lifecycle,   *)
(*                                greeting / user_message / finalize)      *)
(*   services/geminiService.js   (conversation history, extraction filter, *)
(*                                determineNextStep, isBookingComplete)    *)
(*   services/weatherService.js  (getWeatherForDate, getCurrentWeather)    *)
(*   utils/dateParser.js         (parseNaturalDate)                        *)
(*   models/Booking.js           (schema defaults and validators)          *)
(*                                                                         *)
(* A JavaScript value is denoted by the text of its literal: "undefined",  *)
(* "null", "0", "4", "''", "'Mani'".  An object is a function from Keys to *)
(* such values; a key the object does not carry reads as "undefined".      *)
(***************************************************************************)
EXTENDS Integers, Sequences, FiniteSets, TLC

VARIABLES
    clients,        \* this.clients: clientId -> [conversationState]
    readyState,     \* ws.readyState of every connection accepted so far
    conversations,  \* geminiService.conversations: clientId -> history
    bookings,       \* the Booking collection, in order of insertion
    tasks,          \* message handlers suspended at an await, by message number
    outbox,         \* what ws.send put on each connection, in order
    nextClient,     \* number of connections accepted so far (uuidv4 is fresh)
    nmsgs,          \* number of inbound messages received so far
    today,          \* the server's calendar day (new Date() at midnight)
    last,           \* the handling that completed most recently
    fn,             \* argument and result of one pure-function application
    probe,          \* each connection's ping timer: armed, pinged, cleared
    eventLimit      \* how many connections and messages a behaviour may have

vars == <<clients, readyState, conversations, bookings, tasks, outbox,
          nextClient, nmsgs, today, last, fn, probe, eventLimit>>

(***************************************************************************)
(* Bounds of the model.                                                    *)
(***************************************************************************)
\* client events (connections opened plus messages sent) a behaviour follows
MaxEvents == 3

\* entries appended to one history of any length up to the cap
MaxAppends == 3

(***************************************************************************)
(* JavaScript values and truthiness.                                       *)
(***************************************************************************)
Keys == {"customerName", "numberOfGuests", "bookingDate", "bookingTime",
         "cuisinePreference", "specialRequests", "seatingPreference",
         "weatherInfo", "date", "time"}

Falsy == {"undefined", "null", "''", "0"}

Truthy(v) == v \notin Falsy

EmptyObj == [k \in {} |-> "undefined"]

EmptyState == [k \in Keys |-> "undefined"]

\* An object literal with the given own properties.
Object(props) == [k \in Keys |-> IF k \in DOMAIN props THEN props[k] ELSE "undefined"]

OrderedSlots == <<"customerName", "numberOfGuests", "bookingDate",
                  "bookingTime", "cuisinePreference", "seatingPreference">>

RequiredSlots == {"customerName", "numberOfGuests", "bookingDate",
                  "bookingTime", "seatingPreference"}

(***************************************************************************)
(* geminiService.extractBookingInfo: the filter applied to the parsed JSON *)
(* of the language model's answer, and the value the function returns.     *)
(***************************************************************************)
\* the filter without the test of existingState (the REST-era extraction)
NewInfoNoExistingCheck(extracted, existingState) ==
    [k \in {x \in DOMAIN extracted : extracted[x] \notin {"null", "undefined"}}
        |-> extracted[k]]

NewInfo(extracted, existingState) ==
    [k \in {x \in DOMAIN extracted :
                /\ extracted[x] \notin {"null", "undefined"}
                /\ ~Truthy(existingState[x])}
        |-> extracted[k]]

\* an extraction that answers a failure with the object it asked the model
\* to fill, every field null
ExtractBookingInfoNullsOnFailure(outcome, existingState) ==
    IF outcome.kind = "json" THEN NewInfo(outcome.obj, existingState)
    ELSE [k \in {"customerName", "numberOfGuests", "bookingDate"} |-> "null"]

\* outcome.kind: "json" (the answer holds a JSON object), "nojson" (no match),
\* "throw" (the call or JSON.parse failed)
ExtractBookingInfo(outcome, existingState) ==
    IF outcome.kind = "json" THEN NewInfo(outcome.obj, existingState)
    ELSE EmptyObj

\* a merge that keeps the carried state and drops what was extracted
SpreadMergeIgnoresExtraction(conversationState, extractedInfo) == conversationState

\* { ...conversationState, ...extractedInfo }
SpreadMerge(conversationState, extractedInfo) ==
    [k \in Keys |-> IF k \in DOMAIN extractedInfo THEN extractedInfo[k]
                    ELSE conversationState[k]]

\* handleUserMessage: the extraction's answer merged into the carried state
MergedState(conversationState, outcome) ==
    SpreadMerge(conversationState, ExtractBookingInfo(outcome, conversationState))

(***************************************************************************)
(* chatBooking, the REST chat path.  The controller requires               *)
(* '../services/geminiService' and calls extractBookingInfo(message) with  *)
(* the message alone.  The sources hold two services of that name: the one *)
(* the WebSocket server is written against, whose second parameter then    *)
(* defaults to {}, and services/geminiService.js, whose extraction takes   *)
(* the message alone and returns the parsed answer as it is.               *)
(***************************************************************************)
GeminiServices == {"filtering", "unfiltered"}

\* services/geminiService.js: return extracted
ExtractBookingInfoUnfiltered(outcome) ==
    IF outcome.kind = "json" THEN outcome.obj ELSE EmptyObj

\* a chat path that hands the carried state to the extraction
ChatMergedStateFiltered(conversationState, outcome, service) ==
    MergedState(conversationState, outcome)

\* chatBooking: { ...conversationState, ...extractedInfo }
ChatMergedState(conversationState, outcome, service) ==
    SpreadMerge(conversationState,
                IF service = "filtering" THEN ExtractBookingInfo(outcome, EmptyState)
                ELSE ExtractBookingInfoUnfiltered(outcome))

(***************************************************************************)
(* geminiService.determineNextStep and isBookingComplete.                  *)
(***************************************************************************)
\* a next step that treats the optional cuisine as not blocking
DetermineNextStepSkipCuisine(state) ==
    IF ~Truthy(state["customerName"]) THEN "ask_name"
    ELSE IF ~Truthy(state["numberOfGuests"]) THEN "ask_guests"
    ELSE IF ~Truthy(state["bookingDate"]) THEN "ask_date"
    ELSE IF ~Truthy(state["bookingTime"]) THEN "ask_time"
    ELSE IF ~Truthy(state["seatingPreference"]) THEN "ask_seating"
    ELSE "confirm"

\* a next step with the date and time tests swapped
DetermineNextStepSwapped(state) ==
    IF ~Truthy(state["customerName"]) THEN "ask_name"
    ELSE IF ~Truthy(state["numberOfGuests"]) THEN "ask_guests"
    ELSE IF ~Truthy(state["bookingTime"]) THEN "ask_time"
    ELSE IF ~Truthy(state["bookingDate"]) THEN "ask_date"
    ELSE IF ~Truthy(state["cuisinePreference"]) THEN "ask_cuisine"
    ELSE IF ~Truthy(state["seatingPreference"]) THEN "ask_seating"
    ELSE "confirm"

DetermineNextStep(state) ==
    IF ~Truthy(state["customerName"]) THEN "ask_name"
    ELSE IF ~Truthy(state["numberOfGuests"]) THEN "ask_guests"
    ELSE IF ~Truthy(state["bookingDate"]) THEN "ask_date"
    ELSE IF ~Truthy(state["bookingTime"]) THEN "ask_time"
    ELSE IF ~Truthy(state["cuisinePreference"]) THEN "ask_cuisine"
    ELSE IF ~Truthy(state["seatingPreference"]) THEN "ask_seating"
    ELSE "confirm"

IsBookingComplete(state) ==
    /\ Truthy(state["customerName"])
    /\ Truthy(state["numberOfGuests"])
    /\ Truthy(state["bookingDate"])
    /\ Truthy(state["bookingTime"])
    /\ Truthy(state["seatingPreference"])

(***************************************************************************)
(* Calendar dates (a Date normalised to local midnight) and                *)
(* utils/dateParser.js.                                                    *)
(***************************************************************************)
\* an Invalid Date (getTime() is NaN); parseNaturalDate returns null for it
NullDate == [y |-> 0, m |-> 0, d |-> 0]

IsLeap(y) == (y % 4 = 0 /\ y % 100 # 0) \/ y % 400 = 0

DaysInMonth(y, m) ==
    IF m = 2 THEN (IF IsLeap(y) THEN 29 ELSE 28)
    ELSE IF m \in {4, 6, 9, 11} THEN 30 ELSE 31

\* a < b on valid dates
DateBefore(a, b) ==
    \/ a.y < b.y
    \/ a.y = b.y /\ a.m < b.m
    \/ a.y = b.y /\ a.m = b.m /\ a.d < b.d

\* a day added without the carry into the next month
AddOneDayNoCarry(t) == [t EXCEPT !.d = t.d + 1]

\* t.setDate(t.getDate() + 1)
AddOneDay(t) ==
    IF t.d < DaysInMonth(t.y, t.m) THEN [t EXCEPT !.d = t.d + 1]
    ELSE IF t.m < 12 THEN [y |-> t.y, m |-> t.m + 1, d |-> 1]
    ELSE [y |-> t.y + 1, m |-> 1, d |-> 1]

\* String(input).trim().toLowerCase() of the date expressions of the model
LowerCase(v) ==
    CASE v = "'Today'" -> "'today'"
      [] v = "'TOMORROW'" -> "'tomorrow'"
      [] v = "'Indoor'" -> "'indoor'"
      [] v = "'Outdoor'" -> "'outdoor'"
      [] OTHER -> v

\* str.replace(/\b(\d+)(st|nd|rd|th)\b/gi, '$1')
StripOrdinals(v) ==
    CASE v = "'December 5th'" -> "'December 5'"
      [] v = "'January 10th'" -> "'January 10'"
      [] v = "'February 29th'" -> "'February 29'"
      [] OTHER -> v

\* the month/day texts the Date constructor understands once a year follows
MonthDayTexts == {"'December 5'", "'January 10'", "'February 29'"}

MonthDayOf(v) ==
    CASE v = "'December 5'" -> [m |-> 12, d |-> 5]
      [] v = "'January 10'" -> [m |-> 1, d |-> 10]
      [] v = "'February 29'" -> [m |-> 2, d |-> 29]

\* the texts that name their own year: the year appended after them is a
\* further number in the text
FullDateTexts == {"'December 5 2020'"}

FullDateOf(v) == [y |-> 2020, m |-> 12, d |-> 5]

\* the 'YYYY-MM-DD' texts the extraction prompt asks the model for
IsoDateTexts == {"'2025-12-25'"}

\* How the engine's Date constructor treats a text that is not in the ISO
\* format: ECMAScript leaves it to the implementation.  "strict" gives an
\* Invalid Date for everything but an existing month/day and year.  "v8"
\* (the legacy parser of Node's engine) skips unknown words and reads a year
\* alone as 1 January of that year, lets a day of 1..31 beyond the month's
\* end run into the next month, and in a text with a month name, a day and
\* two further numbers takes the first of the two as the year.  A
\* 'YYYY-MM-DD' text followed by a year is no ISO text any more: "strict"
\* rejects it, and the legacy parser has read year, month and day and
\* rejects the fourth number.
DateEngines == {"strict", "v8"}

\* new Date(`${cleaned} ${year}`) and new Date(`${cleaned}, ${year}`)
DateCtor(cleaned, year, engine) ==
    IF cleaned \in MonthDayTexts
    THEN LET md == MonthDayOf(cleaned)
         IN  IF md.d <= DaysInMonth(year, md.m) THEN [y |-> year, m |-> md.m, d |-> md.d]
             ELSE IF engine = "v8"
                  THEN [y |-> year, m |-> md.m + 1, d |-> md.d - DaysInMonth(year, md.m)]
                  ELSE NullDate
    ELSE IF cleaned \in FullDateTexts
    THEN (IF engine = "v8" THEN FullDateOf(cleaned) ELSE NullDate)
    ELSE IF cleaned \in IsoDateTexts THEN NullDate
    ELSE IF engine = "v8" THEN [y |-> year, m |-> 1, d |-> 1]
    ELSE NullDate

\* "date < today" is false for an Invalid Date (NaN compares false)
InPast(date, ref) == date # NullDate /\ DateBefore(date, ref)

\* a parser that takes any text it cannot read to mean today
ParseNaturalDateDefaultsToday(input, ref, engine) ==
    IF ~Truthy(input) THEN ref
    ELSE IF LowerCase(input) = "'today'" THEN ref
    ELSE IF LowerCase(input) = "'tomorrow'" THEN AddOneDay(ref)
    ELSE LET d1 == DateCtor(StripOrdinals(input), ref.y, engine)
             d2 == IF InPast(d1, ref) THEN DateCtor(StripOrdinals(input), ref.y + 1, engine) ELSE d1
         IN  IF d2 = NullDate THEN ref ELSE d2

ParseNaturalDate(input, ref, engine) ==
    IF ~Truthy(input) THEN NullDate
    ELSE IF LowerCase(input) = "'today'" THEN ref
    ELSE IF LowerCase(input) = "'tomorrow'" THEN AddOneDay(ref)
    ELSE LET cleaned == StripOrdinals(input)
             d1 == DateCtor(cleaned, ref.y, engine)
             d2 == IF InPast(d1, ref) THEN DateCtor(cleaned, ref.y + 1, engine) ELSE d1
             d3 == IF d2 = NullDate \/ InPast(d2, ref)
                   THEN DateCtor(cleaned, ref.y + 1, engine) ELSE d2
         IN  d3

(***************************************************************************)
(* models/Booking.js: the schema's defaults and validators, and the        *)
(* document handleFinalizeBooking builds from the message's bookingData.   *)
(***************************************************************************)
\* Number(v): NaN is [nan |-> TRUE]
ToNumber(v) ==
    CASE v = "4" -> [nan |-> FALSE, n |-> 4]
      [] v = "2" -> [nan |-> FALSE, n |-> 2]
      [] v = "25" -> [nan |-> FALSE, n |-> 25]
      [] v \in {"0", "null", "''"} -> [nan |-> FALSE, n |-> 0]
      [] OTHER -> [nan |-> TRUE, n |-> 0]

\* a party size that keeps a zero
NumberOrOneKeepsZero(v) == IF ToNumber(v).nan THEN 1 ELSE ToNumber(v).n

\* Number(v) || 1
NumberOrOne(v) ==
    IF ToNumber(v).nan \/ ToNumber(v).n = 0 THEN 1 ELSE ToNumber(v).n

\* a || b
Or(a, b) == IF Truthy(a) THEN a ELSE b

\* v.trim()
Trim(v) == IF v = "' '" THEN "''" ELSE v

MinGuests == 1
MaxGuests == 20

TimeMatches == {"'19:00'", "'20:00'"}
CuisineEnum == {"'Italian'", "'Chinese'", "'Indian'", "'Mexican'",
                "'Japanese'", "'Continental'", "'Any'"}
SeatingEnum == {"'indoor'", "'outdoor'", "'any'"}

\* a document whose status is left to the schema's default of another era
NewBookingPending(bookingData, parsedDate, weatherInfo, id) ==
    [bookingId |-> id,
     customerName |-> Trim(Or(bookingData["customerName"], "''")),
     numberOfGuests |-> NumberOrOne(bookingData["numberOfGuests"]),
     bookingDate |-> parsedDate,
     bookingTime |-> Or(bookingData["bookingTime"], Or(bookingData["time"], "'19:00'")),
     cuisinePreference |-> Or(bookingData["cuisinePreference"], "'Any'"),
     specialRequests |-> Or(bookingData["specialRequests"], "''"),
     seatingPreference |-> LowerCase(Or(bookingData["seatingPreference"], "'any'")),
     weatherInfo |-> Or(weatherInfo, "null"),
     status |-> "pending"]

\* new Booking({...}); bookingId is the schema default, a fresh string
NewBooking(bookingData, parsedDate, weatherInfo, id) ==
    [bookingId |-> id,
     customerName |-> Trim(Or(bookingData["customerName"], "''")),
     numberOfGuests |-> NumberOrOne(bookingData["numberOfGuests"]),
     bookingDate |-> parsedDate,
     bookingTime |-> Or(bookingData["bookingTime"], Or(bookingData["time"], "'19:00'")),
     cuisinePreference |-> Or(bookingData["cuisinePreference"], "'Any'"),
     specialRequests |-> Or(bookingData["specialRequests"], "''"),
     seatingPreference |-> LowerCase(Or(bookingData["seatingPreference"], "'any'")),
     weatherInfo |-> Or(weatherInfo, "null"),
     status |-> "confirmed"]

\* a validation without the bookingDate validator
ValidatesAnyDate(booking, ref) ==
    /\ booking.bookingId # 0
    /\ booking.customerName # "''"
    /\ booking.numberOfGuests >= MinGuests
    /\ booking.numberOfGuests <= MaxGuests
    /\ booking.bookingDate # NullDate
    /\ booking.bookingTime \in TimeMatches
    /\ booking.cuisinePreference \in CuisineEnum
    /\ booking.seatingPreference \in SeatingEnum
    /\ booking.status \in {"pending", "confirmed", "cancelled", "completed"}

\* the validation save() runs before it writes
Validates(booking, ref) ==
    /\ booking.bookingId # 0
    /\ booking.customerName # "''"
    /\ booking.numberOfGuests >= MinGuests
    /\ booking.numberOfGuests <= MaxGuests
    /\ booking.bookingDate # NullDate
    /\ ~DateBefore(booking.bookingDate, ref)
    /\ booking.bookingTime \in TimeMatches
    /\ booking.cuisinePreference \in CuisineEnum
    /\ booking.seatingPreference \in SeatingEnum
    /\ booking.status \in {"pending", "confirmed", "cancelled", "completed"}

\* the document of no booking (message replies that carry none)
NoBooking ==
    [bookingId |-> 0, customerName |-> "''", numberOfGuests |-> 0,
     bookingDate |-> NullDate, bookingTime |-> "''", cuisinePreference |-> "''",
     specialRequests |-> "''", seatingPreference |-> "''", weatherInfo |-> "null",
     status |-> "none"]

(***************************************************************************)
(* geminiService: the per-client conversation history.                     *)
(***************************************************************************)
HistoryCap == 20

\* a cap that keeps the first entries (slice(0, 20)) instead of the last
AddToHistoryKeepsOldest(convs, clientId, role, message) ==
    LET h == IF clientId \in DOMAIN convs THEN convs[clientId] ELSE <<>>
        pushed == Append(h, [role |-> role, message |-> message])
        kept == IF Len(pushed) > HistoryCap THEN SubSeq(pushed, 1, HistoryCap) ELSE pushed
    IN  [c \in DOMAIN convs \cup {clientId} |-> IF c = clientId THEN kept ELSE convs[c]]

\* addToHistory(clientId, role, message); getConversation creates the entry
\* when the map has none
AddToHistory(convs, clientId, role, message) ==
    LET h == IF clientId \in DOMAIN convs THEN convs[clientId] ELSE <<>>
        pushed == Append(h, [role |-> role, message |-> message])
        kept == IF Len(pushed) > HistoryCap
                THEN SubSeq(pushed, Len(pushed) - HistoryCap + 1, Len(pushed))
                ELSE pushed
    IN  [c \in DOMAIN convs \cup {clientId} |-> IF c = clientId THEN kept ELSE convs[c]]

\* initConversation(clientId)
InitConversation(convs, clientId) ==
    [c \in DOMAIN convs \cup {clientId} |-> IF c = clientId THEN <<>> ELSE convs[c]]

\* clearConversation(clientId): this.conversations.delete(clientId)
ClearConversation(convs, clientId) ==
    [c \in DOMAIN convs \ {clientId} |-> convs[c]]

(***************************************************************************)
(* websocket.js: sending, and the record of a handling that has ended.     *)
(***************************************************************************)
\* sendMessage(ws, data): ws.send only when ws.readyState === WebSocket.OPEN
\* a send that does not look at the socket's state
SendMessageAlways(ob, rs, c, type, msg) ==
    [ob EXCEPT ![c] = Append(@, [type |-> type, msg |-> msg])]

SendMessage(ob, rs, c, type, msg) ==
    IF rs[c] = "OPEN" THEN [ob EXCEPT ![c] = Append(@, [type |-> type, msg |-> msg])]
    ELSE ob

\* { type: 'connected', clientId, message }, sent before any message is read
Connected(c) == [type |-> "connected", msg |-> 0, clientId |-> c]

\* the payload a handler hands to sendMessage as its final reply
Reply(type, conversationState, nextStep, booking) ==
    [type |-> type, conversationState |-> conversationState,
     nextStep |-> nextStep, booking |-> booking]

Ended(msg, c, type, input, updatedState, parsedDate, outcome, extract, reply) ==
    [msg |-> msg, client |-> c, type |-> type, input |-> input,
     updatedState |-> updatedState, parsedDate |-> parsedDate,
     outcome |-> outcome, extract |-> extract, reply |-> reply]

NoneEnded ==
    Ended(0, 0, "none", EmptyState, EmptyState, NullDate, "none", "none",
          Reply("none", EmptyState, "none", NoBooking))

\* the collaborators a handler awaits: extractBookingInfo, getWeatherForDate,
\* generateResponse, booking.save
Services == {"extract", "weather", "generate", "save"}

NoCalls == [service \in Services |-> 0]

\* one more `await service(...)` issued by the handler
Call(calls, service) == [calls EXCEPT ![service] = @ + 1]

\* a handler suspended in its first call, the one pc names
Task(c, type, pc, input, updatedState, parsedDate, weatherInfo) ==
    [client |-> c, type |-> type, pc |-> pc, input |-> input,
     updatedState |-> updatedState, parsedDate |-> parsedDate,
     weatherInfo |-> weatherInfo, extract |-> "pending",
     calls |-> Call(NoCalls, pc)]

PutTask(ts, t, task) == [x \in DOMAIN ts \cup {t} |-> IF x = t THEN task ELSE ts[x]]

\* a handler that stays suspended after it has returned
DropTaskKeeps(ts, t) == ts

DropTask(ts, t) == [x \in DOMAIN ts \ {t} |-> ts[x]]

\* client.conversationState = value, on the client object the handler holds
\* (an object the registry may no longer hold)
SetConversationStateShared(cl, c, value) ==
    [x \in DOMAIN cl |-> [cl[x] EXCEPT !.conversationState = value]]

SetConversationState(cl, c, value) ==
    IF c \in DOMAIN cl THEN [cl EXCEPT ![c].conversationState = value] ELSE cl

(***************************************************************************)
(* What the model lets a client send and the collaborators answer.         *)
(***************************************************************************)
\* the conversationState a user_message may carry: nothing, or the state the
\* server last stored for the session (what its reply told the client)
CarriedStates(c) == {EmptyState, clients[c].conversationState}

\* the JSON objects the language model may answer an extraction with
Extractions ==
    { [customerName |-> "'Mani'", numberOfGuests |-> "4", bookingDate |-> "'whenever'",
       bookingTime |-> "'20:00'", cuisinePreference |-> "null",
       specialRequests |-> "null", seatingPreference |-> "'outdoor'"],
      [bookingDate |-> "'tomorrow'", cuisinePreference |-> "'Italian'"],
      [customerName |-> "'Mani'", numberOfGuests |-> "4"],
      [bookingDate |-> "'2025-12-25'"] }

ExtractOutcomes ==
    {[kind |-> "json", obj |-> e] : e \in Extractions}
        \cup {[kind |-> "nojson", obj |-> EmptyObj], [kind |-> "throw", obj |-> EmptyObj]}

CompleteData ==
    Object([customerName |-> "'Mani'", numberOfGuests |-> "4",
            bookingDate |-> "'tomorrow'", bookingTime |-> "'20:00'",
            seatingPreference |-> "'Outdoor'"])

\* the bookingData a finalize_booking may carry: the state the server last
\* stored, a complete one, one with a name and a date only, or one whose
\* date names a year gone by
BookingDatas(c) ==
    { clients[c].conversationState,
      CompleteData,
      Object([customerName |-> "'Mani'", bookingDate |-> "'tomorrow'"]),
      Object([customerName |-> "'Mani'", bookingDate |-> "'December 5 2020'"]) }

RefDays == {[y |-> 2025, m |-> 12, d |-> 10]}

(***************************************************************************)
(* The state after construction: no connection yet.                        *)
(***************************************************************************)
NoMap == [c \in {} |-> 0]

Idle == [op |-> "idle", s |-> EmptyState, e |-> EmptyObj, out |-> EmptyState,
         step |-> "none", complete |-> FALSE]

Init ==
    /\ clients = NoMap
    /\ readyState = NoMap
    /\ conversations = NoMap
    /\ bookings = <<>>
    /\ tasks = NoMap
    /\ outbox = NoMap
    /\ nextClient = 0
    /\ nmsgs = 0
    /\ today \in RefDays
    /\ last = NoneEnded
    /\ fn = Idle
    /\ probe = NoMap
    /\ eventLimit = MaxEvents

(***************************************************************************)
(* wss.on('connection') and ws.on('close').                                *)
(***************************************************************************)
\* an identifier a session already has
ReusedClientId == IF nextClient = 0 THEN 1 ELSE nextClient

\* const clientId = uuidv4()
FreshClientId == nextClient + 1

Connect ==
    /\ nextClient + nmsgs < eventLimit
    /\ LET c == FreshClientId IN
        /\ nextClient' = c
        /\ clients' = [x \in DOMAIN clients \cup {c} |->
                          IF x = c THEN [conversationState |-> EmptyState] ELSE clients[x]]
        /\ conversations' = InitConversation(conversations, c)
        /\ readyState' = [x \in DOMAIN readyState \cup {c} |->
                             IF x = c THEN "OPEN" ELSE readyState[x]]
        /\ outbox' = [x \in DOMAIN outbox \cup {c} |->
                         IF x = c THEN <<Connected(c)>> ELSE outbox[x]]
        /\ probe' = [x \in DOMAIN probe \cup {c} |->
                        IF x = c THEN "armed" ELSE probe[x]]
    /\ UNCHANGED <<bookings, tasks, nmsgs, today, last, fn, eventLimit>>

Close(c) ==
    /\ readyState[c] = "OPEN"
    /\ readyState' = [readyState EXCEPT ![c] = "CLOSED"]
    /\ conversations' = ClearConversation(conversations, c)
    /\ clients' = [x \in DOMAIN clients \ {c} |-> clients[x]]
    /\ UNCHANGED <<bookings, tasks, outbox, nextClient, nmsgs, today, last, fn, probe,
                   eventLimit>>

(***************************************************************************)
(* The liveness probe: setInterval(..., 30000) of the connection handler.  *)
(* A tick sends a ping while the socket is open and clears the timer once  *)
(* it is not.  The server registers no 'pong' listener and never looks at  *)
(* whether a ping was answered.                                            *)
(***************************************************************************)
\* a timer that goes on pinging whatever the socket's state
PingTickNeverClears(c) ==
    /\ c \in DOMAIN probe
    /\ probe[c] # "cleared"
    /\ probe' = [probe EXCEPT ![c] = "pinged"]
    /\ UNCHANGED <<clients, readyState, conversations, bookings, tasks, outbox,
                   nextClient, nmsgs, today, last, fn, eventLimit>>

PingTick(c) ==
    /\ c \in DOMAIN probe
    /\ probe[c] # "cleared"
    /\ probe' = [probe EXCEPT ![c] = IF readyState[c] = "OPEN" THEN "pinged" ELSE "cleared"]
    /\ UNCHANGED <<clients, readyState, conversations, bookings, tasks, outbox,
                   nextClient, nmsgs, today, last, fn, eventLimit>>

\* the peer answers the ping it was sent
Pong(c) ==
    /\ c \in DOMAIN probe
    /\ probe[c] = "pinged"
    /\ readyState[c] = "OPEN"
    /\ probe' = [probe EXCEPT ![c] = "armed"]
    /\ UNCHANGED <<clients, readyState, conversations, bookings, tasks, outbox,
                   nextClient, nmsgs, today, last, fn, eventLimit>>

(***************************************************************************)
(* ws.on('message') -> handleMessage: the synchronous part of a handling,  *)
(* up to its first await.                                                  *)
(***************************************************************************)
CanReceive(c) ==
    /\ c \in DOMAIN readyState
    /\ readyState[c] = "OPEN"
    /\ c \in DOMAIN clients
    /\ nextClient + nmsgs < eventLimit

\* a rejection that also forgets what the session has collected
ReceiveBadResets(c, kind) ==
    /\ CanReceive(c)
    /\ nmsgs' = nmsgs + 1
    /\ outbox' = SendMessage(outbox, readyState, c, "error", nmsgs + 1)
    /\ clients' = SetConversationState(clients, c, EmptyState)
    /\ last' = Ended(nmsgs + 1, c, kind, EmptyState, EmptyState, NullDate, "rejected", "none",
                     Reply("error", EmptyState, "none", NoBooking))
    /\ UNCHANGED <<readyState, conversations, bookings, tasks, nextClient, today, fn, probe,
                   eventLimit>>

\* JSON.parse throws, or the type is none of the three: one error reply
ReceiveBad(c, kind) ==
    /\ CanReceive(c)
    /\ nmsgs' = nmsgs + 1
    /\ outbox' = SendMessage(outbox, readyState, c, "error", nmsgs + 1)
    /\ last' = Ended(nmsgs + 1, c, kind, EmptyState, EmptyState, NullDate, "rejected", "none",
                     Reply("error", EmptyState, "none", NoBooking))
    /\ UNCHANGED <<clients, readyState, conversations, bookings, tasks, nextClient, today, fn, probe,
                   eventLimit>>

\* a greeting that starts the session over
ReceiveGreetingResets(c) ==
    /\ CanReceive(c)
    /\ nmsgs' = nmsgs + 1
    /\ conversations' = AddToHistory(conversations, c, "assistant", nmsgs + 1)
    /\ clients' = SetConversationState(clients, c, EmptyState)
    /\ outbox' = SendMessage(outbox, readyState, c, "greeting", nmsgs + 1)
    /\ last' = Ended(nmsgs + 1, c, "greeting", EmptyState, EmptyState, NullDate, "greeted", "none",
                     Reply("greeting", EmptyState, "none", NoBooking))
    /\ UNCHANGED <<readyState, bookings, tasks, nextClient, today, fn, probe, eventLimit>>

\* handleGreeting has no await: it runs to its end
ReceiveGreeting(c) ==
    /\ CanReceive(c)
    /\ nmsgs' = nmsgs + 1
    /\ conversations' = AddToHistory(conversations, c, "assistant", nmsgs + 1)
    /\ outbox' = SendMessage(outbox, readyState, c, "greeting", nmsgs + 1)
    /\ last' = Ended(nmsgs + 1, c, "greeting", EmptyState, EmptyState, NullDate, "greeted", "none",
                     Reply("greeting", EmptyState, "none", NoBooking))
    /\ UNCHANGED <<clients, readyState, bookings, tasks, nextClient, today, fn, probe,
                   eventLimit>>

\* handleUserMessage: 'processing', then suspended in extractBookingInfo
ReceiveUserMessage(c, conversationState) ==
    /\ CanReceive(c)
    /\ nmsgs' = nmsgs + 1
    /\ outbox' = SendMessage(outbox, readyState, c, "processing", nmsgs + 1)
    /\ tasks' = PutTask(tasks, nmsgs + 1,
                        Task(c, "user_message", "extract", conversationState,
                             EmptyState, NullDate, "undefined"))
    /\ UNCHANGED <<clients, readyState, conversations, bookings, nextClient, today, last, fn, probe,
                   eventLimit>>

(***************************************************************************)
(* handleUserMessage after the extraction has answered.                    *)
(***************************************************************************)
\* updatedState.bookingDate && !updatedState.weatherInfo
NeedsWeather(updatedState) ==
    Truthy(updatedState["bookingDate"]) /\ ~Truthy(updatedState["weatherInfo"])

\* generateResponse up to its await: the user's message enters the history.
\* (The carried conversationState is not read after the merge: the task
\* forgets it.)
StartGenerate(t, updatedState, extract) ==
    /\ conversations' = AddToHistory(conversations, tasks[t].client, "user", t)
    /\ tasks' = [tasks EXCEPT ![t].pc = "generate", ![t].input = EmptyState,
                               ![t].updatedState = updatedState,
                               ![t].extract = extract,
                               ![t].calls = Call(@, "generate")]

ExtractReturn(t, outcome) ==
    /\ t \in DOMAIN tasks
    /\ tasks[t].pc = "extract"
    /\ LET updatedState == MergedState(tasks[t].input, outcome)
       IN  IF NeedsWeather(updatedState)
           THEN /\ tasks' = [tasks EXCEPT ![t].pc = "weather", ![t].input = EmptyState,
                                          ![t].updatedState = updatedState,
                                          ![t].extract = outcome.kind,
                                          ![t].calls = Call(@, "weather")]
                /\ UNCHANGED conversations
           ELSE StartGenerate(t, updatedState, outcome.kind)
    /\ UNCHANGED <<clients, readyState, bookings, outbox, nextClient, nmsgs, today, last, fn, probe,
                   eventLimit>>

(***************************************************************************)
(* weatherService.getWeatherForDate, awaited by both handlers: the         *)
(* forecast request, then getCurrentWeather when no forecast entry is      *)
(* found.  Any failure inside ends in the catch that returns the default.  *)
(***************************************************************************)
\* value.property: undefined when the value has no such property (a string
\* has none of an observation's)
Get(value, property) ==
    IF property \in DOMAIN value THEN value[property] ELSE "undefined"

\* the object the catch of getWeatherForDate returns, "{default}" in the
\* states of the model; its recommendation is a string
DefaultWeather ==
    [condition |-> "'unknown'",
     temperature |-> 25,
     description |-> "'Weather data unavailable'",
     recommendation |-> [string |-> "'Indoor seating recommended as a safe choice.'"]]

\* the handler goes on with the observation w
AfterWeather(t, w) ==
    IF tasks[t].type = "user_message"
    THEN StartGenerate(t, [tasks[t].updatedState EXCEPT !["weatherInfo"] = w],
                       tasks[t].extract)
    ELSE /\ tasks' = [tasks EXCEPT ![t].pc = "save", ![t].weatherInfo = w,
                                    ![t].calls = Call(@, "save")]
         /\ UNCHANGED conversations

\* a handler that asks for the weather once more when the fetch has failed
ForecastReturnRetries(t, outcome) ==
    /\ t \in DOMAIN tasks
    /\ tasks[t].pc = "weather"
    /\ \/ outcome = "found" /\ AfterWeather(t, "{forecast}")
       \/ /\ outcome = "failed"
          /\ IF tasks[t].calls["weather"] < 2
             THEN /\ tasks' = [tasks EXCEPT ![t].calls = Call(@, "weather")]
                  /\ UNCHANGED conversations
             ELSE AfterWeather(t, "{default}")
       \/ /\ outcome = "none"
          /\ tasks' = [tasks EXCEPT ![t].pc = "current"]
          /\ UNCHANGED conversations
    /\ UNCHANGED <<clients, readyState, bookings, outbox, nextClient, nmsgs, today, last, fn, probe,
                   eventLimit>>

\* getCurrentWeather is called by getWeatherForDate itself, inside the one
\* call the handler has made
ForecastReturn(t, outcome) ==
    /\ t \in DOMAIN tasks
    /\ tasks[t].pc = "weather"
    /\ \/ outcome = "found" /\ AfterWeather(t, "{forecast}")
       \/ outcome = "failed" /\ AfterWeather(t, "{default}")
       \/ /\ outcome = "none"
          /\ tasks' = [tasks EXCEPT ![t].pc = "current"]
          /\ UNCHANGED conversations
    /\ UNCHANGED <<clients, readyState, bookings, outbox, nextClient, nmsgs, today, last, fn, probe,
                   eventLimit>>

CurrentWeatherReturn(t, ok) ==
    /\ t \in DOMAIN tasks
    /\ tasks[t].pc = "current"
    /\ AfterWeather(t, IF ok THEN "{current}" ELSE "{default}")
    /\ UNCHANGED <<clients, readyState, bookings, outbox, nextClient, nmsgs, today, last, fn, probe,
                   eventLimit>>

(***************************************************************************)
(* handleUserMessage after the generation has answered (ok) or failed.     *)
(***************************************************************************)
\* a reply type taken from the next step instead of the completion test
ReplyTypeFromNextStep(updatedState) ==
    IF DetermineNextStep(updatedState) = "confirm" THEN "booking_ready" ELSE "response"

ReplyType(updatedState) ==
    IF IsBookingComplete(updatedState) THEN "booking_ready" ELSE "response"

GenerateReturn(t, ok) ==
    /\ t \in DOMAIN tasks
    /\ tasks[t].pc = "generate"
    /\ LET c == tasks[t].client
           updatedState == tasks[t].updatedState
           reply == Reply(ReplyType(updatedState), updatedState,
                          DetermineNextStep(updatedState), NoBooking)
       IN  /\ conversations' = IF ok THEN AddToHistory(conversations, c, "assistant", t)
                               ELSE conversations
           /\ clients' = SetConversationState(clients, c, updatedState)
           /\ outbox' = SendMessage(outbox, readyState, c, reply.type, t)
           /\ last' = Ended(t, c, "user_message", tasks[t].input, updatedState, NullDate,
                            IF ok THEN "generated" ELSE "fallback", tasks[t].extract, reply)
    /\ tasks' = DropTask(tasks, t)
    /\ UNCHANGED <<readyState, bookings, nextClient, nmsgs, today, fn, probe,
                   eventLimit>>

(***************************************************************************)
(* handleFinalizeBooking.                                                  *)
(***************************************************************************)
ReceiveFinalize(c, bookingData, engine) ==
    /\ CanReceive(c)
    /\ nmsgs' = nmsgs + 1
    /\ LET t == nmsgs + 1
           rawDate == Or(bookingData["bookingDate"], bookingData["date"])
           parsedDate == ParseNaturalDate(rawDate, today, engine)
       IN  IF parsedDate = NullDate
           THEN /\ outbox' = SendMessage(outbox, readyState, c, "error", t)
                /\ last' = Ended(t, c, "finalize_booking", bookingData, EmptyState,
                                 parsedDate, "unresolved", "none",
                                 Reply("error", EmptyState, "none", NoBooking))
                /\ UNCHANGED tasks
           ELSE /\ tasks' = PutTask(tasks, t,
                              Task(c, "finalize_booking",
                                   IF Truthy(bookingData["weatherInfo"]) THEN "save" ELSE "weather",
                                   bookingData, EmptyState, parsedDate,
                                   bookingData["weatherInfo"]))
                /\ UNCHANGED <<outbox, last>>
    /\ UNCHANGED <<clients, readyState, conversations, bookings, nextClient, today, fn, probe,
                   eventLimit>>

\* a reset placed where it runs whether or not save() threw
AfterSaveAlwaysReset(saved, conversationState) == EmptyState

\* client.conversationState = {} is reached only when save() did not throw
AfterSave(saved, conversationState) ==
    IF saved THEN EmptyState ELSE conversationState

\* a confirmation sent whether or not save() threw
SaveReplyAlwaysConfirms(saved, booking) ==
    Reply("booking_confirmed", EmptyState, "none", booking)

\* 'booking_confirmed' after save() has returned, the catch's error otherwise
SaveReply(saved, booking) ==
    IF saved THEN Reply("booking_confirmed", EmptyState, "none", booking)
    ELSE Reply("error", EmptyState, "none", NoBooking)

\* await booking.save(): validation, then the store's write (storeOk)
SaveReturn(t, storeOk) ==
    /\ t \in DOMAIN tasks
    /\ tasks[t].pc = "save"
    /\ LET c == tasks[t].client
           booking == NewBooking(tasks[t].input, tasks[t].parsedDate, tasks[t].weatherInfo, t)
           saved == storeOk /\ Validates(booking, today)
           reply == SaveReply(saved, booking)
       IN  /\ bookings' = IF saved THEN Append(bookings, booking) ELSE bookings
           /\ outbox' = SendMessage(outbox, readyState, c, reply.type, t)
           /\ clients' = IF c \in DOMAIN clients
                         THEN SetConversationState(clients, c,
                                  AfterSave(saved, clients[c].conversationState))
                         ELSE clients
           /\ conversations' = IF saved THEN ClearConversation(conversations, c)
                               ELSE conversations
           /\ last' = Ended(t, c, "finalize_booking", tasks[t].input, EmptyState,
                            tasks[t].parsedDate,
                            IF saved THEN "saved" ELSE "save_failed", "none", reply)
    /\ tasks' = DropTask(tasks, t)
    /\ UNCHANGED <<readyState, nextClient, nmsgs, today, fn, probe, eventLimit>>

(***************************************************************************)
(* The server: every connection event and every resumption of a suspended  *)
(* handler is one step; the event loop runs them in any order.             *)
(***************************************************************************)
Conns == 1..(MaxEvents + 1)
Msgs == 1..MaxEvents

Next ==
    \/ Connect
    \/ \E c \in Conns : c \in DOMAIN readyState /\ Close(c)
    \/ \E c \in Conns : \E kind \in {"unparsable", "unknown"} : ReceiveBad(c, kind)
    \/ \E c \in Conns : ReceiveGreeting(c)
    \/ \E c \in Conns : CanReceive(c) /\ \E s \in CarriedStates(c) : ReceiveUserMessage(c, s)
    \/ \E c \in Conns : CanReceive(c) /\ \E b \in BookingDatas(c) :
            \E engine \in DateEngines : ReceiveFinalize(c, b, engine)
    \/ \E t \in Msgs : \E outcome \in ExtractOutcomes : ExtractReturn(t, outcome)
    \/ \E t \in Msgs : \E outcome \in {"found", "none", "failed"} : ForecastReturn(t, outcome)
    \/ \E t \in Msgs : \E ok \in BOOLEAN : CurrentWeatherReturn(t, ok)
    \/ \E t \in Msgs : \E ok \in BOOLEAN : GenerateReturn(t, ok)
    \/ \E t \in Msgs : \E storeOk \in BOOLEAN : SaveReturn(t, storeOk)
    \/ \E c \in Conns : PingTick(c)
    \/ \E c \in Conns : Pong(c)

Spec == Init /\ [][Next]_vars

\* the timers of the event loop do fire: a tick that stays possible happens
SpecLive == Init /\ [][Next]_vars /\ WF_vars(\E c \in Conns : PingTick(c))

\* every connection has a timer of its own, and each of them fires
SpecTimers == Init /\ [][Next]_vars /\ \A c \in Conns : WF_vars(PingTick(c))

(***************************************************************************)
(* A message event delivered for a connection whose 'close' has already    *)
(* run.  The listener parses it and calls handleMessage, which finds no    *)
(* registry entry and returns; text that does not parse goes to sendError  *)
(* on the closed socket.  The ws library emits no 'message' after 'close', *)
(* so the server's own behaviours (Spec) have no such step; SpecLate adds  *)
(* it to show what the guard does.                                         *)
(***************************************************************************)
\* a late message that is handled as a greeting
ReceiveRemovedHandles(c, kind) ==
    /\ c \in DOMAIN readyState
    /\ c \notin DOMAIN clients
    /\ nextClient + nmsgs < eventLimit
    /\ nmsgs' = nmsgs + 1
    /\ conversations' = AddToHistory(conversations, c, "assistant", nmsgs + 1)
    /\ outbox' = SendMessage(outbox, readyState, c, "greeting", nmsgs + 1)
    /\ UNCHANGED <<clients, readyState, bookings, tasks, nextClient, today, last, fn, probe,
                   eventLimit>>

\* const client = this.clients.get(clientId); if (!client) return;
ReceiveRemoved(c, kind) ==
    /\ c \in DOMAIN readyState
    /\ c \notin DOMAIN clients
    /\ nextClient + nmsgs < eventLimit
    /\ nmsgs' = nmsgs + 1
    /\ outbox' = IF kind = "unparsable"
                 THEN SendMessage(outbox, readyState, c, "error", nmsgs + 1)
                 ELSE outbox
    /\ UNCHANGED <<clients, readyState, conversations, bookings, tasks, nextClient, today, last,
                   fn, probe, eventLimit>>

MessageKinds == {"unparsable", "unknown", "greeting", "user_message", "finalize_booking"}

NextLate ==
    \/ Next
    \/ \E c \in Conns : \E kind \in MessageKinds : ReceiveRemoved(c, kind)

SpecLate == Init /\ [][NextLate]_vars

\* two connections accepted and nothing received yet: the state in which
\* handlers of both can be in flight together
InitTwo ==
    /\ clients = [c \in {1, 2} |-> [conversationState |-> EmptyState]]
    /\ readyState = [c \in {1, 2} |-> "OPEN"]
    /\ conversations = InitConversation(InitConversation(NoMap, 1), 2)
    /\ bookings = <<>>
    /\ tasks = NoMap
    /\ outbox = [c \in {1, 2} |-> <<Connected(c)>>]
    /\ nextClient = 2
    /\ nmsgs = 0
    /\ today \in RefDays
    /\ last = NoneEnded
    /\ fn = Idle
    /\ probe = [c \in {1, 2} |-> "armed"]
    /\ eventLimit = MaxEvents + 1

SpecTwo == InitTwo /\ [][Next]_vars

(***************************************************************************)
(* The pure functions of the slot state, applied to every slot state of a  *)
(* bounded universe: each slot undefined, defined but falsy, or set.       *)
(***************************************************************************)
SlotStates ==
    { Object([customerName |-> n, numberOfGuests |-> g, bookingDate |-> d,
              bookingTime |-> t, cuisinePreference |-> c, seatingPreference |-> p,
              specialRequests |-> r, weatherInfo |-> w]) :
        n \in {"undefined", "''", "'Mani'"},
        g \in {"undefined", "0", "4"},
        d \in {"undefined", "''", "'tomorrow'"},
        t \in {"undefined", "''", "'20:00'"},
        c \in {"undefined", "null", "'Italian'"},
        p \in {"undefined", "''", "'outdoor'"},
        r \in {"undefined", "'birthday'"},
        w \in {"undefined", "{forecast}"} }

\* what an extraction may answer for each slot: null, or a value of its own
ExtractedObjects ==
    { [customerName |-> n, numberOfGuests |-> g, bookingDate |-> d,
       bookingTime |-> t, cuisinePreference |-> c, seatingPreference |-> p,
       specialRequests |-> r] :
        n \in {"null", "'Sarah'"},
        g \in {"null", "2"},
        d \in {"null", "'December 5th'"},
        t \in {"null", "'19:00'"},
        c \in {"null", "'Indian'"},
        p \in {"null", "'indoor'"},
        r \in {"null", "'anniversary'"} }

FnInput(op, s, e) ==
    [op |-> op, s |-> s, e |-> e, out |-> EmptyState, step |-> "none", complete |-> FALSE]

InitFn ==
    /\ clients = NoMap
    /\ readyState = NoMap
    /\ conversations = NoMap
    /\ bookings = <<>>
    /\ tasks = NoMap
    /\ outbox = NoMap
    /\ nextClient = 0
    /\ nmsgs = 0
    /\ today \in RefDays
    /\ last = NoneEnded
    /\ probe = NoMap
    /\ eventLimit = MaxEvents
    /\ \/ \E s \in SlotStates : fn = FnInput("nextStep", s, EmptyObj)
       \/ \E s \in SlotStates : \E e \in ExtractedObjects :
             /\ s["specialRequests"] = "undefined"
             /\ s["weatherInfo"] = "undefined"
             /\ \/ fn = FnInput("merge", s, e)
                \/ \E service \in GeminiServices :
                      fn = [op |-> "chatMerge", s |-> s, e |-> e, service |-> service,
                            out |-> EmptyState]

\* the merge of handleUserMessage on a JSON answer e
ApplyMerge ==
    /\ fn.op = "merge"
    /\ fn' = [fn EXCEPT !.op = "merged",
                        !.out = MergedState(fn.s, [kind |-> "json", obj |-> fn.e])]
    /\ UNCHANGED <<clients, readyState, conversations, bookings, tasks, outbox,
                   nextClient, nmsgs, today, last, probe, eventLimit>>

\* determineNextStep and isBookingComplete, as handleUserMessage calls them
ApplyNextStep ==
    /\ fn.op = "nextStep"
    /\ fn' = [fn EXCEPT !.op = "stepped",
                        !.step = DetermineNextStep(fn.s),
                        !.complete = IsBookingComplete(fn.s)]
    /\ UNCHANGED <<clients, readyState, conversations, bookings, tasks, outbox,
                   nextClient, nmsgs, today, last, probe, eventLimit>>

\* the merge of chatBooking on a JSON answer e
ApplyChatMerge ==
    /\ fn.op = "chatMerge"
    /\ fn' = [fn EXCEPT !.op = "chatMerged",
                        !.out = ChatMergedState(fn.s, [kind |-> "json", obj |-> fn.e],
                                                fn.service)]
    /\ UNCHANGED <<clients, readyState, conversations, bookings, tasks, outbox,
                   nextClient, nmsgs, today, last, probe, eventLimit>>

NextFn == ApplyMerge \/ ApplyNextStep \/ ApplyChatMerge

SpecFn == InitFn /\ [][NextFn]_vars

(***************************************************************************)
(* geminiService.addToHistory on a session that has talked for a while:    *)
(* one session whose history holds any number of entries up to the cap,    *)
(* and the appends of its further turns.                                   *)
(***************************************************************************)
HistoryOfLen(n) ==
    [i \in 1..n |-> [role |-> IF i % 2 = 1 THEN "assistant" ELSE "user", message |-> i]]

InitHistory ==
    /\ \E n \in 0..HistoryCap : conversations = [c \in {1} |-> HistoryOfLen(n)]
    /\ clients = [c \in {1} |-> [conversationState |-> EmptyState]]
    /\ readyState = [c \in {1} |-> "OPEN"]
    /\ bookings = <<>>
    /\ tasks = NoMap
    /\ outbox = [c \in {1} |-> <<Connected(c)>>]
    /\ nextClient = 1
    /\ nmsgs = 0
    /\ today \in RefDays
    /\ last = NoneEnded
    /\ fn = Idle
    /\ probe = [c \in {1} |-> "armed"]
    /\ eventLimit = MaxEvents

\* the number the next entry carries: one more than the newest entry's
NextMessage(h) == IF h = <<>> THEN 1 ELSE h[Len(h)].message + 1

AppendHistory(role) ==
    /\ nmsgs < MaxAppends
    /\ nmsgs' = nmsgs + 1
    /\ conversations' = AddToHistory(conversations, 1, role, NextMessage(conversations[1]))
    /\ UNCHANGED <<clients, readyState, bookings, tasks, outbox, nextClient, today,
                   last, fn, probe, eventLimit>>

NextHistory == \E role \in {"user", "assistant"} : AppendHistory(role)

SpecHistory == InitHistory /\ [][NextHistory]_vars

(***************************************************************************)
(* utils/dateParser.js applied to the date expressions of the model on     *)
(* every reference day of a bounded set: the first, an inner and the last  *)
(* days of every month of a leap year and of the years around it.          *)
(***************************************************************************)
RefDates ==
    { [y |-> y, m |-> m, d |-> d] :
        y \in {2023, 2024, 2025}, m \in 1..12, d \in {1, 3, 10, 28, 29, 30, 31} }

ValidRefDates == {t \in RefDates : t.d <= DaysInMonth(t.y, t.m)}

DateInputs ==
    {"undefined", "''", "'today'", "'Today'", "'tomorrow'", "'TOMORROW'",
     "'December 5th'", "'January 10th'", "'February 29th'",
     "'December 5 2020'", "'whenever'", "'2025-12-25'"}

InitDate ==
    /\ clients = NoMap
    /\ readyState = NoMap
    /\ conversations = NoMap
    /\ bookings = <<>>
    /\ tasks = NoMap
    /\ outbox = NoMap
    /\ nextClient = 0
    /\ nmsgs = 0
    /\ today \in ValidRefDates
    /\ last = NoneEnded
    /\ probe = NoMap
    /\ eventLimit = MaxEvents
    /\ \E input \in DateInputs : \E engine \in DateEngines :
          fn = [op |-> "parse", input |-> input, engine |-> engine, out |-> NullDate]

\* parseNaturalDate(input) on the day `today`
ApplyParse ==
    /\ fn.op = "parse"
    /\ fn' = [fn EXCEPT !.op = "parsed",
                        !.out = ParseNaturalDate(fn.input, today, fn.engine)]
    /\ UNCHANGED <<clients, readyState, conversations, bookings, tasks, outbox,
                   nextClient, nmsgs, today, last, probe, eventLimit>>

NextDate == ApplyParse

SpecDate == InitDate /\ [][NextDate]_vars

\* ---------------------------------------------------------------------------
\* WeatherService.generateRecommendation

\* the words generateRecommendation looks for in the condition
WeatherWords == {"rain", "drizzle", "thunder", "storm", "clear", "sun", "cloud", "snow"}

\* weather[0].main.toLowerCase(): the weather groups of the forecast service,
\* and the three the source's comment names (sunny, rainy, cloudy)
Conditions ==
    {"thunderstorm", "drizzle", "rain", "snow", "mist", "smoke", "haze", "dust",
     "fog", "sand", "ash", "squall", "tornado", "clear", "clouds",
     "sunny", "rainy", "cloudy"}

\* the words of WeatherWords that are substrings of the condition
Substrings(condition) ==
    CASE condition = "thunderstorm" -> {"thunder", "storm"}
      [] condition = "drizzle" -> {"drizzle"}
      [] condition \in {"rain", "rainy"} -> {"rain"}
      [] condition = "snow" -> {"snow"}
      [] condition = "clear" -> {"clear"}
      [] condition = "sunny" -> {"sun"}
      [] condition \in {"clouds", "cloudy"} -> {"cloud"}
      [] OTHER -> {}

\* condition.includes(word)
Includes(condition, word) == word \in Substrings(condition)

\* Math.round(main.temp), degrees Celsius
Temperatures == -15 .. 45

\* the texts of the recommendation, by the sentence they are built from
Messages ==
    {"cozy indoor", "thunderstorms", "perfect outdoor", "quite hot", "bit chilly",
     "nice cloudy", "around", "snow in the forecast", "safe and comfortable"}

Recommendation(seating, message) == [seating |-> seating, message |-> message]

NoRecommendation == Recommendation("undefined", "undefined")

InRangeExclusive(temperature, low, high) == temperature > low /\ temperature < high

\* temperature >= low && temperature <= high
InRange(temperature, low, high) == temperature >= low /\ temperature <= high

DefaultRecommendationAny == Recommendation("any", "undefined")

\* the default fallback
DefaultRecommendation == Recommendation("indoor", "safe and comfortable")

GenerateRecommendationByTemperature(condition, temperature) ==
    IF InRange(temperature, 20, 32)
    THEN Recommendation("outdoor", "perfect outdoor")
    ELSE Recommendation("indoor", "bit chilly")

GenerateRecommendation(condition, temperature) ==
    IF Includes(condition, "rain") \/ Includes(condition, "drizzle")
    THEN Recommendation("indoor", "cozy indoor")
    ELSE IF Includes(condition, "thunder") \/ Includes(condition, "storm")
    THEN Recommendation("indoor", "thunderstorms")
    ELSE IF Includes(condition, "clear") \/ Includes(condition, "sun")
    THEN (IF InRange(temperature, 20, 32)
          THEN Recommendation("outdoor", "perfect outdoor")
          ELSE IF temperature > 32
          THEN Recommendation("indoor", "quite hot")
          ELSE Recommendation("indoor", "bit chilly"))
    ELSE IF Includes(condition, "cloud")
    THEN (IF InRange(temperature, 18, 28)
          THEN Recommendation("outdoor", "nice cloudy")
          ELSE Recommendation("indoor", "around"))
    ELSE IF Includes(condition, "snow")
    THEN Recommendation("indoor", "snow in the forecast")
    ELSE DefaultRecommendation

InitWeather ==
    /\ clients = NoMap
    /\ readyState = NoMap
    /\ conversations = NoMap
    /\ bookings = <<>>
    /\ tasks = NoMap
    /\ outbox = NoMap
    /\ nextClient = 0
    /\ nmsgs = 0
    /\ today \in RefDays
    /\ last = NoneEnded
    /\ probe = NoMap
    /\ eventLimit = MaxEvents
    /\ \E condition \in Conditions : \E temperature \in Temperatures :
          fn = [op |-> "recommend", condition |-> condition,
                temperature |-> temperature, out |-> NoRecommendation]

\* weatherData.recommendation = this.generateRecommendation(weatherData)
ApplyRecommend ==
    /\ fn.op = "recommend"
    /\ fn' = [fn EXCEPT !.op = "recommended",
                        !.out = GenerateRecommendation(fn.condition, fn.temperature)]
    /\ UNCHANGED <<clients, readyState, conversations, bookings, tasks, outbox,
                   nextClient, nmsgs, today, last, probe, eventLimit>>

NextWeather == ApplyRecommend

SpecWeather == InitWeather /\ [][NextWeather]_vars

\* ---------------------------------------------------------------------------
\* handleFinalizeBooking: the document built from the message's bookingData

\* what a finalize_booking may carry in the fields the document is built from
BookingInputs ==
    { Object([customerName |-> n, numberOfGuests |-> g, bookingDate |-> "'tomorrow'",
              bookingTime |-> t, time |-> a, cuisinePreference |-> c,
              seatingPreference |-> p]) :
        n \in {"undefined", "'Mani'"},
        g \in {"undefined", "null", "''", "0", "'four'", "4", "25"},
        t \in {"undefined", "''", "'20:00'"},
        a \in {"undefined", "'19:00'", "'20:00'"},
        c \in {"undefined", "''", "'Italian'"},
        p \in {"undefined", "'Outdoor'", "'indoor'"} }

\* a session whose stored slot state is empty or complete, and a
\* finalize_booking for it whose date has been parsed
InitBooking ==
    /\ \E stored \in {EmptyState, CompleteData} :
          clients = [c \in {1} |-> [conversationState |-> stored]]
    /\ readyState = [c \in {1} |-> "OPEN"]
    /\ conversations = InitConversation(NoMap, 1)
    /\ bookings = <<>>
    /\ tasks = NoMap
    /\ outbox = [c \in {1} |-> <<Connected(c)>>]
    /\ nextClient = 1
    /\ nmsgs = 0
    /\ today \in RefDays
    /\ last = NoneEnded
    /\ probe = [c \in {1} |-> "armed"]
    /\ eventLimit = MaxEvents
    /\ \E bookingData \in BookingInputs :
          fn = [op |-> "build", bookingData |-> bookingData, out |-> NoBooking]

\* const booking = new Booking({...})
ApplyNewBooking ==
    /\ fn.op = "build"
    /\ fn' = [fn EXCEPT !.op = "built",
                        !.out = NewBooking(fn.bookingData,
                                           ParseNaturalDate(fn.bookingData["bookingDate"],
                                                            today, "v8"),
                                           fn.bookingData["weatherInfo"], 1)]
    /\ UNCHANGED <<clients, readyState, conversations, bookings, tasks, outbox,
                   nextClient, nmsgs, today, last, probe, eventLimit>>

NextBooking == ApplyNewBooking

SpecBooking == InitBooking /\ [][NextBooking]_vars

(***************************************************************************)
(* Properties.                                                             *)
(***************************************************************************)
AskStep == <<"ask_name", "ask_guests", "ask_date", "ask_time", "ask_cuisine", "ask_seating">>

\* the positions, in the fixed order, of the slots that are empty in s
EmptyOrdered(s) == {i \in 1..Len(OrderedSlots) : ~Truthy(s[OrderedSlots[i]])}

Earliest(S) == CHOOSE i \in S : \A j \in S : i <= j

\* the handling of a finalize_booking ends in this step
FinalizeEnds == last'.msg # last.msg /\ last'.type = "finalize_booking"

\* C1: the merge of a user_message turn (the extraction's filtered answer
\* spread over the carried state) leaves every slot that was non-empty in
\* the carried state with exactly the value it had.
C1_FirstWriteWins ==
    fn.op = "merged" => \A k \in Keys : Truthy(fn.s[k]) => fn.out[k] = fn.s[k]

\* an answer that names another value for a set slot and a value for an
\* empty one: the first is kept, the second is taken
C1_Witness ==
    /\ fn.op = "merged"
    /\ \E k \in DOMAIN fn.e : Truthy(fn.s[k]) /\ fn.e[k] # "null" /\ fn.e[k] # fn.s[k]
    /\ \E k \in DOMAIN fn.e : ~Truthy(fn.s[k]) /\ fn.e[k] # "null" /\ fn.out[k] = fn.e[k]

\* C2 (as claimed): a slot of the server-held state of a session, once
\* non-empty, keeps its value in every step but the reset of a successful
\* finalize_booking, whatever conversationState later messages carry.
C2_ServerStateNeverRegresses ==
    [][\A c \in DOMAIN clients : \A k \in Keys :
          ( /\ c \in DOMAIN clients'
            /\ Truthy(clients[c].conversationState[k])
            /\ ~(FinalizeEnds /\ last'.outcome = "saved") )
          => clients'[c].conversationState[k] = clients[c].conversationState[k]]_vars

\* C3: when some ordered slot is empty, determineNextStep returns the ask
\* step of the earliest empty slot of the six, whatever the other slots hold.
C3_EarliestEmptySlot ==
    fn.op = "stepped" =>
        (EmptyOrdered(fn.s) # {} => fn.step = AskStep[Earliest(EmptyOrdered(fn.s))])

C3_Witness ==
    /\ fn.op = "stepped"
    /\ Cardinality(EmptyOrdered(fn.s)) >= 2
    /\ fn.step = "ask_date"
    /\ fn.s["specialRequests"] # "undefined"

\* C4 (as claimed): determineNextStep returns 'confirm' exactly when none of
\* the five required slots is empty, that is exactly when isBookingComplete.
C4_ConfirmIffFiveRequired ==
    fn.op = "stepped" =>
        /\ (fn.step = "confirm") <=> (\A k \in RequiredSlots : Truthy(fn.s[k]))
        /\ (fn.step = "confirm") <=> fn.complete

\* C4 (amended): determineNextStep returns 'confirm' exactly when none of the
\* six ordered slots is empty; 'confirm' implies isBookingComplete, and a
\* complete state that is not confirmed is one that is asked for its cuisine.
C4_ConfirmIffSixOrdered ==
    fn.op = "stepped" =>
        /\ (fn.step = "confirm") <=> (EmptyOrdered(fn.s) = {})
        /\ (fn.step = "confirm") => fn.complete
        /\ (fn.complete /\ fn.step # "confirm") => fn.step = "ask_cuisine"

C4_Witness ==
    /\ fn.op = "stepped"
    /\ fn.complete
    /\ fn.step = "ask_cuisine"

\* C5: a user_message turn replies 'booking_ready' exactly when the five
\* required slots of the merged state are non-empty (cuisine and special
\* requests play no part) and 'response' otherwise; the reply carries the
\* merged state.
C5_ReadyIffComplete ==
    last.type = "user_message" =>
        /\ last.reply.type =
              (IF \A k \in RequiredSlots : Truthy(last.updatedState[k])
               THEN "booking_ready" ELSE "response")
        /\ last.reply.conversationState = last.updatedState

C5_Witness ==
    /\ last.type = "user_message"
    /\ last.reply.type = "booking_ready"
    /\ ~Truthy(last.updatedState["cuisinePreference"])
    /\ ~Truthy(last.updatedState["specialRequests"])

\* C6: a finalize_booking whose save succeeds replies 'booking_confirmed'
\* with the persisted Booking, of status 'confirmed' and with a bookingId;
\* after that step the session's slot state is empty and the language model
\* holds no conversation of the session.
C6_FinalizeSuccess ==
    [][(FinalizeEnds /\ last'.outcome = "saved") =>
          /\ last'.reply.type = "booking_confirmed"
          /\ last'.reply.booking.status = "confirmed"
          /\ last'.reply.booking.bookingId # 0
          /\ bookings' = Append(bookings, last'.reply.booking)
          /\ (last'.client \in DOMAIN clients' =>
                 clients'[last'.client].conversationState = EmptyState)
          /\ last'.client \notin DOMAIN conversations'
          /\ (readyState[last'.client] = "OPEN" =>
                 outbox'[last'.client] =
                    Append(outbox[last'.client],
                           [type |-> "booking_confirmed", msg |-> last'.msg]))]_vars

\* the five required slots were filled, the date resolved, the save succeeded
C6_Witness ==
    /\ last.type = "finalize_booking"
    /\ last.outcome = "saved"
    /\ \A k \in RequiredSlots : Truthy(last.input[k])
    /\ last.parsedDate # NullDate
    /\ Len(bookings) = 1
    /\ clients[last.client].conversationState = EmptyState

\* C7: a finalize_booking that carries no date, or whose date expression
\* parseNaturalDate does not resolve, ends at once with an 'error' reply; it
\* persists nothing, starts no external call and leaves the registry and the
\* conversation histories as they were.
C7_UnresolvedDate ==
    [][(FinalizeEnds /\ ( \/ ~Truthy(Or(last'.input["bookingDate"], last'.input["date"]))
                          \/ last'.parsedDate = NullDate )) =>
          /\ last'.reply.type = "error"
          /\ last'.outcome = "unresolved"
          /\ UNCHANGED <<clients, conversations, bookings, tasks>>]_vars

\* the date expression is a text ("whenever") that did not resolve
C7_Witness ==
    /\ last.type = "finalize_booking"
    /\ last.outcome = "unresolved"
    /\ Truthy(last.input["bookingDate"])
    /\ last.reply.type = "error"

\* C8: when the save fails (validation or store), the reply is 'error', no
\* 'booking_confirmed' is sent, and neither that step nor any earlier step
\* of the same finalize handling changes the registry, the conversation
\* histories or the bookings.
C8_SaveFailureKeepsState ==
    [][/\ (FinalizeEnds /\ last'.outcome = "save_failed") =>
             /\ last'.reply.type = "error"
             /\ UNCHANGED <<clients, conversations, bookings>>
             /\ outbox'[last'.client] =
                   (IF readyState[last'.client] = "OPEN"
                    THEN Append(outbox[last'.client], [type |-> "error", msg |-> last'.msg])
                    ELSE outbox[last'.client])
       /\ \A t \in DOMAIN tasks \cap DOMAIN tasks' :
             (tasks[t].type = "finalize_booking" /\ tasks'[t] # tasks[t]) =>
                 UNCHANGED <<clients, conversations, bookings>>]_vars

\* the save failed while the session held collected slots
C8_Witness ==
    /\ last.type = "finalize_booking"
    /\ last.outcome = "save_failed"
    /\ last.client \in DOMAIN clients
    /\ \E k \in RequiredSlots : Truthy(clients[last.client].conversationState[k])

\* C9 (as claimed): a finalize_booking whose bookingData has one of the five
\* required slots empty ends with an 'error' reply and persists no Booking.
C9_IncompleteFinalizeRejected ==
    (last.type = "finalize_booking" /\ \E k \in RequiredSlots : ~Truthy(last.input[k])) =>
        /\ last.reply.type = "error"
        /\ \A i \in 1..Len(bookings) : bookings[i].bookingId # last.msg

\* C10 (as claimed): no two message handlings of one session are in flight
\* together.
C10_OneHandlingPerSession ==
    \A t1 \in DOMAIN tasks : \A t2 \in DOMAIN tasks :
        tasks[t1].client = tasks[t2].client => t1 = t2

\* the handling of an unparsable message or of one of unknown type ends here
BadEnds == last'.msg # last.msg /\ last'.type \in {"unparsable", "unknown"}

\* C11: an inbound message that cannot be parsed, or whose type is none of
\* greeting, user_message, finalize_booking, puts exactly one 'error' reply
\* on its connection and changes neither the session's slot state, nor the
\* conversation histories, nor the registry, nor the bookings, nor any
\* handling in flight.
C11_BadMessageOnlyErrors ==
    [][BadEnds =>
          /\ last'.reply.type = "error"
          /\ outbox' = [outbox EXCEPT ![last'.client] =
                            Append(@, [type |-> "error", msg |-> last'.msg])]
          /\ UNCHANGED <<clients, readyState, conversations, bookings, tasks>>]_vars

\* a message of unknown type rejected on a session that has collected slots
\* and holds a history
C11_Witness ==
    /\ last.type = "unknown"
    /\ last.client \in DOMAIN clients
    /\ clients[last.client].conversationState # EmptyState
    /\ last.client \in DOMAIN conversations
    /\ conversations[last.client] # <<>>
    /\ outbox[last.client][Len(outbox[last.client])] = [type |-> "error", msg |-> last.msg]

\* C12 (as claimed): once a connection has closed, the registry holds no
\* entry for it and the language-model service holds no conversation for it,
\* in every later state.
C12_ClosedSessionsLeaveNothing ==
    \A c \in DOMAIN readyState :
        readyState[c] = "CLOSED" => c \notin DOMAIN clients /\ c \notin DOMAIN conversations

\* C13 (as claimed): a finalize_booking that comes back from an external call
\* after its session was removed from the registry does not go on to save.
C13_NoSaveAfterTeardown ==
    [][\A t \in DOMAIN tasks \cap DOMAIN tasks' :
          ( /\ tasks[t].type = "finalize_booking"
            /\ tasks[t].pc \in {"weather", "current"}
            /\ tasks'[t].pc = "save" )
          => tasks[t].client \in DOMAIN clients]_vars


\* C14 (as claimed): a ping that is sent to a connection is eventually
\* answered, or else the connection's session is eventually removed from the
\* registry and its conversation cleared.
C14_SilentConnectionClosed ==
    \A c \in Conns :
        (c \in DOMAIN probe /\ probe[c] = "pinged")
            ~> ( \/ (c \in DOMAIN probe /\ probe[c] = "armed")
                 \/ (c \notin DOMAIN clients /\ c \notin DOMAIN conversations) )

\* C15: the history of every session holds at most 20 entries in every
\* state; each step of the session (an append, counted by nmsgs) to a
\* history of fewer than 20 entries keeps them all, an
\* append to a full history evicts the oldest entry, and in both cases the
\* entries kept stay in their order with the new entry last.
C15_HistoryCapped ==
    /\ [](\A c \in DOMAIN conversations : Len(conversations[c]) <= 20)
    /\ [][\A c \in DOMAIN conversations \cap DOMAIN conversations' :
             LET h == conversations[c]
                 h2 == conversations'[c]
                 evicted == Len(h) + 1 - Len(h2)
             IN  nmsgs' = nmsgs + 1 =>
                   /\ Len(h2) = (IF Len(h) < 20 THEN Len(h) + 1 ELSE 20)
                   /\ \A i \in 1..(Len(h2) - 1) : h2[i] = h[i + evicted]
                   /\ h2[Len(h2)].message = NextMessage(h)]_vars

\* appends to a full history have evicted its oldest entries
C15_Witness ==
    /\ nmsgs >= 2
    /\ 1 \in DOMAIN conversations
    /\ Len(conversations[1]) = 20
    /\ conversations[1][1].message = 3
    /\ conversations[1][20].message = 22

\* the handling of a user_message ends in this step
UserTurnEnds == last'.msg # last.msg /\ last'.type = "user_message"

\* C16 (as claimed): when a user_message turn ends, the history of its
\* session holds the user's utterance of the turn and, after it, the agent's
\* utterance of the turn, whether the generation answered or failed.
C16_TurnAppendsBoth ==
    [][UserTurnEnds =>
          /\ last'.client \in DOMAIN conversations'
          /\ LET h == conversations'[last'.client]
             IN  \E i \in 1..Len(h) : \E j \in 1..Len(h) :
                    /\ i < j
                    /\ h[i] = [role |-> "user", message |-> last'.msg]
                    /\ h[j] = [role |-> "assistant", message |-> last'.msg]]_vars

\* C17: a failed extraction (no JSON in the answer, or an exception) leaves
\* the merged state equal to the state the message carried; a turn whose
\* extraction or generation failed still ends with a 'response' or
\* 'booking_ready' reply that carries the merged state, and the step that
\* ends it removes no session and closes no connection.
C17_ModelFailureNeverFailsTurn ==
    [][/\ \A t \in DOMAIN tasks \cap DOMAIN tasks' :
             ( /\ tasks[t].pc = "extract"
               /\ tasks'[t].pc # "extract"
               /\ tasks'[t].extract # "json" )
             => tasks'[t].updatedState = tasks[t].input
       /\ (UserTurnEnds /\ (last'.extract # "json" \/ last'.outcome = "fallback")) =>
             /\ last'.reply.type \in {"response", "booking_ready"}
             /\ last'.reply.conversationState = last'.updatedState
             /\ DOMAIN clients' = DOMAIN clients
             /\ readyState' = readyState]_vars

\* a turn on a session with collected slots whose extraction threw and whose
\* generation failed, and that kept the slots
C17_Witness ==
    /\ last.type = "user_message"
    /\ last.extract = "throw"
    /\ last.outcome = "fallback"
    /\ last.reply.type = "booking_ready"
    /\ Truthy(last.updatedState["customerName"])
    /\ last.client \in DOMAIN clients
    /\ readyState[last.client] = "OPEN"

\* C18 (as claimed): a user_message turn that ends with a bookingDate ends
\* with a weatherInfo, and a weatherInfo present in the session's stored slot
\* state is left as it is by every user_message turn of the session.
C18_WeatherAttachedOnce ==
    [][UserTurnEnds =>
          /\ Truthy(last'.updatedState["bookingDate"])
                => Truthy(last'.updatedState["weatherInfo"])
          /\ ( /\ last'.client \in DOMAIN clients
               /\ Truthy(clients[last'.client].conversationState["weatherInfo"]) )
                => clients'[last'.client].conversationState["weatherInfo"]
                      = clients[last'.client].conversationState["weatherInfo"]]_vars

\* C19 (as claimed): the observation a handler goes on with after the
\* weather provider failed has condition 'unknown', temperature 25 and a
\* recommendation whose seating is 'indoor'.
C19_DefaultObservation ==
    \A t \in DOMAIN tasks :
        ( \/ tasks[t].weatherInfo = "{default}"
          \/ tasks[t].updatedState["weatherInfo"] = "{default}" )
        => /\ Get(DefaultWeather, "condition") = "'unknown'"
           /\ Get(DefaultWeather, "temperature") = 25
           /\ Get(Get(DefaultWeather, "recommendation"), "seating") = "'indoor'"

\* C20 (as claimed): a finalize_booking whose bookingData carries a
\* weatherInfo never waits for the weather provider and persists that same
\* weatherInfo; one that carries none persists what the provider answered,
\* or null when the fetch failed.
C20_FinalizeWeather ==
    [][/\ \A t \in DOMAIN tasks' :
             (tasks'[t].type = "finalize_booking" /\ Truthy(tasks'[t].input["weatherInfo"]))
             => tasks'[t].pc \notin {"weather", "current"}
       /\ (FinalizeEnds /\ last'.outcome = "saved") =>
             IF Truthy(last'.input["weatherInfo"])
             THEN last'.reply.booking.weatherInfo = last'.input["weatherInfo"]
             ELSE last'.reply.booking.weatherInfo \in {"{forecast}", "{current}", "null"}]_vars

\* b is the calendar day after a
IsNextDay(a, b) ==
    \/ b.y = a.y /\ b.m = a.m /\ b.d = a.d + 1 /\ b.d <= DaysInMonth(a.y, a.m)
    \/ b.y = a.y /\ b.m = a.m + 1 /\ b.d = 1 /\ a.d = DaysInMonth(a.y, a.m)
    \/ b.y = a.y + 1 /\ b.m = 1 /\ b.d = 1 /\ a.m = 12 /\ a.d = 31

\* C21: parseNaturalDate maps 'today' (in any letter case) to the reference
\* day and 'tomorrow' to the calendar day after it, whatever the reference
\* day, the last day of a month or of a year included.
C21_TodayTomorrow ==
    fn.op = "parsed" =>
        /\ LowerCase(fn.input) = "'today'" => fn.out = today
        /\ LowerCase(fn.input) = "'tomorrow'" => IsNextDay(today, fn.out)

\* 'tomorrow' on the last day of a year
C21_Witness ==
    /\ fn.op = "parsed"
    /\ fn.input = "'tomorrow'"
    /\ today.m = 12 /\ today.d = 31
    /\ fn.out = [y |-> today.y + 1, m |-> 1, d |-> 1]

\* C22 (as claimed): for a month/day expression without a year,
\* parseNaturalDate returns a date of that month and day, never before the
\* reference day: in the reference year when the day is on or after the
\* reference day, in the next year when it is before it (the year is left
\* open where that year has no such day).
C22_MonthDayNearestFuture ==
    (fn.op = "parsed" /\ StripOrdinals(fn.input) \in MonthDayTexts) =>
        LET md == MonthDayOf(StripOrdinals(fn.input))
            before == md.m < today.m \/ (md.m = today.m /\ md.d < today.d)
            year == IF before THEN today.y + 1 ELSE today.y
        IN  /\ fn.out.m = md.m
            /\ fn.out.d = md.d
            /\ md.d <= DaysInMonth(year, md.m) => fn.out.y = year
            /\ ~DateBefore(fn.out, today)

C24_SevereAlwaysIndoor ==
    (fn.op = "recommended"
       /\ fn.condition \in {"rain", "rainy", "drizzle", "thunderstorm", "snow"})
        => fn.out.seating = "indoor"

C24_Witness ==
    /\ fn.op = "recommended"
    /\ fn.condition = "snow"
    /\ fn.temperature = 25
    /\ fn.out.seating = "indoor"

\* C25: for a clear or sunny condition the seating is 'outdoor' exactly when
\* 20 <= temperature <= 32, for a cloudy condition exactly when
\* 18 <= temperature <= 28, and 'indoor' otherwise; the bounds are inclusive.
C25_TemperatureBands ==
    fn.op = "recommended" =>
        /\ fn.condition \in {"clear", "sunny"} =>
              fn.out.seating = (IF fn.temperature \in 20 .. 32 THEN "outdoor" ELSE "indoor")
        /\ fn.condition \in {"clouds", "cloudy"} =>
              fn.out.seating = (IF fn.temperature \in 18 .. 28 THEN "outdoor" ELSE "indoor")

C25_Witness ==
    /\ fn.op = "recommended"
    /\ fn.condition = "clouds"
    /\ fn.temperature = 28
    /\ fn.out.seating = "outdoor"

\* C26: generateRecommendation is total: for every condition and every
\* temperature it returns a seating of 'indoor' or 'outdoor' together with a
\* message, and for a condition it does not recognise the seating is 'indoor'.
C26_Total ==
    fn.op = "recommended" =>
        /\ fn.out.seating \in {"indoor", "outdoor"}
        /\ fn.out.message \in Messages
        /\ Substrings(fn.condition) = {} => fn.out.seating = "indoor"

C26_Witness ==
    /\ fn.op = "recommended"
    /\ fn.condition = "tornado"
    /\ fn.out = Recommendation("indoor", "safe and comfortable")

\* a step taken on behalf of connection a: its connection, its close, a tick
\* of its timer, the receipt of one of its messages, or the resumption of a
\* handler of one of its messages
StepOf(a) ==
    \/ Connect /\ nextClient' = a
    \/ a \in DOMAIN readyState /\ Close(a)
    \/ \E kind \in {"unparsable", "unknown"} : ReceiveBad(a, kind)
    \/ ReceiveGreeting(a)
    \/ CanReceive(a) /\ \E s \in CarriedStates(a) : ReceiveUserMessage(a, s)
    \/ CanReceive(a) /\ \E b \in BookingDatas(a) :
            \E engine \in DateEngines : ReceiveFinalize(a, b, engine)
    \/ \E t \in DOMAIN tasks :
          /\ tasks[t].client = a
          /\ \/ \E outcome \in ExtractOutcomes : ExtractReturn(t, outcome)
             \/ \E outcome \in {"found", "none", "failed"} : ForecastReturn(t, outcome)
             \/ \E ok \in BOOLEAN : CurrentWeatherReturn(t, ok)
             \/ \E ok \in BOOLEAN : GenerateReturn(t, ok)
             \/ \E storeOk \in BOOLEAN : SaveReturn(t, storeOk)
    \/ PingTick(a)
    \/ Pong(a)

\* the registry entry (with its slot state) or the history of b is not what
\* it was
SessionChanged(b) ==
    \/ (b \in DOMAIN clients) # (b \in DOMAIN clients')
    \/ b \in DOMAIN clients /\ b \in DOMAIN clients' /\ clients'[b] # clients[b]
    \/ (b \in DOMAIN conversations) # (b \in DOMAIN conversations')
    \/ /\ b \in DOMAIN conversations
       /\ b \in DOMAIN conversations'
       /\ conversations'[b] # conversations[b]

\* C27: sessions are isolated: a step taken on behalf of connection a (the
\* receipt of a message, the resumption of one of its handlers, its close)
\* never changes the slot state, the history or the registry entry of a
\* different connection b, whatever handlers of the two are in flight.
C27_SessionsIsolated ==
    [][\A b \in Conns : SessionChanged(b) => \A a \in Conns \ {b} : ~StepOf(a)]_vars

C27_Witness ==
    /\ last.client = 1
    /\ last.type = "user_message"
    /\ 1 \in DOMAIN clients
    /\ clients[1].conversationState # EmptyState
    /\ 2 \in DOMAIN clients
    /\ clients[2].conversationState = EmptyState
    /\ \E t \in DOMAIN tasks : tasks[t].client = 2 /\ tasks[t].type = "user_message"

\* C28: the session engine performs no retries: the handler of one
\* user_message calls the extraction, the weather fetch and the generation at
\* most once each and never save; the handler of one finalize_booking calls
\* the weather fetch and save at most once each and nothing else, whatever
\* the calls return.
C28_NoRetries ==
    \A t \in DOMAIN tasks :
        /\ \A service \in Services : tasks[t].calls[service] <= 1
        /\ tasks[t].type = "user_message" => tasks[t].calls["save"] = 0
        /\ tasks[t].type = "finalize_booking" =>
              tasks[t].calls["extract"] = 0 /\ tasks[t].calls["generate"] = 0

C28_Witness ==
    \E t \in DOMAIN tasks :
        /\ tasks[t].type = "user_message"
        /\ tasks[t].pc = "generate"
        /\ tasks[t].weatherInfo = "undefined"
        /\ tasks[t].updatedState["weatherInfo"] = "{default}"
        /\ tasks[t].calls = [extract |-> 1, weather |-> 1, generate |-> 1, save |-> 0]

\* the example of the scenario: an empty session, and the extraction of a
\* name and a party size
ManiForFour == [customerName |-> "'Mani'", numberOfGuests |-> "4"]

\* C29: a user_message turn sets every slot that was empty in the state the
\* message carried, and for which the extraction returned a value that is
\* not null, to the extracted value (an empty state and the extraction
\* {customerName: 'Mani', numberOfGuests: 4} give a state with those two
\* slots set, next step ask_date and isComplete false); the merged slots
\* reach the end of the turn as they were set, and the state stored for the
\* session when the turn ends is the merged state sent in the reply.
C29_TurnSetsEmptySlots ==
    [][/\ \A t \in DOMAIN tasks : \A outcome \in ExtractOutcomes :
            ExtractReturn(t, outcome) =>
                LET merged == tasks'[t].updatedState
                IN  /\ \A k \in DOMAIN outcome.obj :
                          (/\ outcome.kind = "json"
                           /\ ~Truthy(tasks[t].input[k])
                           /\ outcome.obj[k] \notin {"null", "undefined"})
                              => merged[k] = outcome.obj[k]
                    /\ (outcome.kind = "json" /\ outcome.obj = ManiForFour
                           /\ tasks[t].input = EmptyState)
                          => /\ merged = Object(ManiForFour)
                             /\ DetermineNextStep(merged) = "ask_date"
                             /\ ~IsBookingComplete(merged)
       /\ UserTurnEnds =>
            /\ \A k \in Keys \ {"weatherInfo"} :
                  last'.updatedState[k] = tasks[last'.msg].updatedState[k]
            /\ last'.reply.conversationState = last'.updatedState
            /\ last'.reply.nextStep = DetermineNextStep(last'.updatedState)
            /\ (last'.reply.type = "booking_ready") = IsBookingComplete(last'.updatedState)
            /\ last'.client \in DOMAIN clients' =>
                  clients'[last'.client].conversationState = last'.updatedState]_vars

C29_Witness ==
    /\ last.type = "user_message"
    /\ last.updatedState = Object(ManiForFour)
    /\ last.reply.type = "response"
    /\ last.reply.nextStep = "ask_date"
    /\ last.reply.conversationState = Object(ManiForFour)
    /\ last.client \in DOMAIN clients
    /\ clients[last.client].conversationState = Object(ManiForFour)

\* the answer e names, for a slot that is set in s, another value than s has
NamesAnotherValue(s, e) ==
    \E k \in DOMAIN e : Truthy(s[k]) /\ e[k] # "null" /\ e[k] # s[k]

\* C30: the two merge paths differ: the merge of the WebSocket user_message
\* path changes only slots that were empty in the carried state, while the
\* merge of the REST chat path gives every slot for which the extraction
\* returned a non-null value that value, also when the slot was non-empty in
\* the carried conversationState, so that its result is not the WebSocket
\* path's whenever the answer names another value for a set slot.
C30_MergePathsDiffer ==
    /\ fn.op = "merged" => \A k \in Keys : fn.out[k] # fn.s[k] => ~Truthy(fn.s[k])
    /\ fn.op = "chatMerged" =>
          /\ \A k \in DOMAIN fn.e : fn.e[k] # "null" => fn.out[k] = fn.e[k]
          /\ NamesAnotherValue(fn.s, fn.e) =>
                fn.out # MergedState(fn.s, [kind |-> "json", obj |-> fn.e])

C30_Witness ==
    /\ fn.op = "chatMerged"
    /\ fn.s["customerName"] = "'Mani'"
    /\ fn.e["customerName"] = "'Sarah'"
    /\ fn.out["customerName"] = "'Sarah'"
    /\ MergedState(fn.s, [kind |-> "json", obj |-> fn.e])["customerName"] = "'Mani'"

\* a date expression parseNaturalDate resolves on no engine
Unresolved(text) ==
    /\ Truthy(text)
    /\ \A engine \in DateEngines : ParseNaturalDate(text, today, engine) = NullDate

\* C31 (as claimed): when the bookingDate expression extracted in a
\* user_message turn cannot be resolved by parseNaturalDate, the turn does
\* not set the bookingDate slot and starts no weather fetch whose result it
\* would attach to the slot state.
C31_UnresolvedDateNotStored ==
    [][\A t \in DOMAIN tasks : \A outcome \in ExtractOutcomes :
          ( /\ ExtractReturn(t, outcome)
            /\ outcome.kind = "json"
            /\ "bookingDate" \in DOMAIN outcome.obj
            /\ Unresolved(outcome.obj["bookingDate"])
            /\ ~Truthy(tasks[t].input["bookingDate"]) )
          => /\ ~Truthy(tasks'[t].updatedState["bookingDate"])
             /\ tasks'[t].pc # "weather"]_vars

\* C32: every new connection registers a session under an identifier no
\* connection has had, with an empty slot state and an empty conversation
\* history, and leaves every other session as it was; on every connection
\* the first message sent is the 'connected' acknowledgment carrying the
\* connection's identifier, and it is the only one.
C32_ConnectRegistersFresh ==
    /\ [](\A c \in DOMAIN outbox :
            /\ outbox[c] # <<>>
            /\ outbox[c][1] = Connected(c)
            /\ \A i \in 2..Len(outbox[c]) : outbox[c][i].type # "connected")
    /\ [][Connect =>
            \E c \in Conns :
                /\ c \notin DOMAIN readyState
                /\ DOMAIN clients' = DOMAIN clients \cup {c}
                /\ clients'[c] = [conversationState |-> EmptyState]
                /\ conversations'[c] = <<>>
                /\ readyState'[c] = "OPEN"
                /\ outbox'[c] = <<Connected(c)>>
                /\ \A b \in DOMAIN clients : clients'[b] = clients[b]
                /\ \A b \in DOMAIN conversations : conversations'[b] = conversations[b]]_vars

C32_Witness ==
    /\ {1, 2} \subseteq DOMAIN clients
    /\ clients[2] = [conversationState |-> EmptyState]
    /\ clients[1].conversationState # EmptyState
    /\ outbox[2] = <<Connected(2)>>
    /\ Len(outbox[1]) > 1

\* the types of what connection c was sent in answer to message t, in order
RepliesTo(ob, c, t) ==
    LET sent == SelectSeq(ob[c], LAMBDA m : m.msg = t)
    IN  [i \in 1..Len(sent) |-> sent[i].type]

\* the handling of a greeting, user_message or finalize_booking ends
HandlerEnds ==
    /\ last'.msg # last.msg
    /\ last'.type \in {"greeting", "user_message", "finalize_booking"}

\* C33: a message of one of the three types is handled by the handler of its
\* type, once, and what its connection is sent in answer follows the
\* protocol: for a user_message one 'processing' and then, when the handler
\* ends, exactly one of 'response', 'booking_ready', 'error'; for a
\* finalize_booking exactly one of 'booking_confirmed', 'error'; for a
\* greeting exactly one 'greeting'.  The final reply is sent when the
\* connection is open at that moment and dropped otherwise; no other
\* connection is sent anything for the message, and nothing more is sent for
\* it once its handler has ended.
C33_RepliesFollowProtocol ==
    /\ [](\A t \in DOMAIN tasks : \A c \in DOMAIN outbox :
             RepliesTo(outbox, c, t) =
                 IF c = tasks[t].client /\ tasks[t].type = "user_message"
                 THEN <<"processing">> ELSE <<>>)
    /\ [][HandlerEnds =>
            LET t == last'.msg
                c == last'.client
                final == IF readyState[c] = "OPEN" THEN <<last'.reply.type>> ELSE <<>>
            IN  /\ t \notin DOMAIN tasks'
                /\ \A b \in DOMAIN outbox' \ {c} : RepliesTo(outbox', b, t) = <<>>
                /\ last'.type = "user_message" =>
                      /\ last'.reply.type \in {"response", "booking_ready", "error"}
                      /\ RepliesTo(outbox', c, t) = <<"processing">> \o final
                /\ last'.type = "finalize_booking" =>
                      /\ last'.reply.type \in {"booking_confirmed", "error"}
                      /\ RepliesTo(outbox', c, t) = final
                /\ last'.type = "greeting" =>
                      RepliesTo(outbox', c, t) = <<"greeting">>]_vars
    /\ [][\A c \in DOMAIN outbox : \A t \in 1..nmsgs :
            t \notin DOMAIN tasks => RepliesTo(outbox', c, t) = RepliesTo(outbox, c, t)]_vars

C33_Witness ==
    /\ last.type = "user_message"
    /\ RepliesTo(outbox, last.client, last.msg) = <<"processing", "booking_ready">>
    /\ \E t \in DOMAIN tasks :
          /\ tasks[t].type = "finalize_booking"
          /\ tasks[t].client = last.client

\* how many 'booking_confirmed' replies connection c has been sent
Confirmations(ob, c) == Len(SelectSeq(ob[c], LAMBDA m : m.type = "booking_confirmed"))

RECURSIVE SumConfirmations(_, _)
SumConfirmations(ob, cs) ==
    IF cs = {} THEN 0
    ELSE LET c == CHOOSE x \in cs : TRUE
         IN  Confirmations(ob, c) + SumConfirmations(ob, cs \ {c})

\* C34: in finalize_booking a 'booking_confirmed' reply is sent only in the
\* step in which save has succeeded and the booking is persisted, and the
\* session's slot state and conversation history are reset only by a
\* finalize whose save succeeded; in every state the number of
\* 'booking_confirmed' replies sent is at most the number of bookings
\* persisted.
C34_SaveThenConfirmThenReset ==
    /\ [](SumConfirmations(outbox, DOMAIN outbox) <= Len(bookings))
    /\ [][/\ \A c \in DOMAIN outbox :
                Confirmations(outbox', c) # Confirmations(outbox, c) =>
                    /\ Confirmations(outbox', c) = Confirmations(outbox, c) + 1
                    /\ bookings' = Append(bookings, last'.reply.booking)
                    /\ last'.outcome = "saved"
                    /\ last'.client = c
          /\ (FinalizeEnds /\ last'.outcome # "saved") =>
                UNCHANGED <<clients, conversations, bookings>>
          /\ (FinalizeEnds /\ last'.outcome = "saved") =>
                /\ Len(bookings') = Len(bookings) + 1
                /\ last'.client \in DOMAIN clients' =>
                      clients'[last'.client].conversationState = EmptyState
                /\ last'.client \notin DOMAIN conversations']_vars

C34_Witness ==
    /\ last.type = "finalize_booking"
    /\ last.outcome = "saved"
    /\ Len(bookings) = 1
    /\ Confirmations(outbox, last.client) = 1
    /\ last.client \in DOMAIN clients
    /\ clients[last.client].conversationState = EmptyState
    /\ last.client \notin DOMAIN conversations

\* the party sizes Number() reads as a number other than zero
GuestNumbers == [g \in {"4", "25"} |-> IF g = "4" THEN 4 ELSE 25]

\* C35 (as claimed): the Booking is built from the message's bookingData:
\* numberOfGuests that is missing, zero or non-numeric becomes 1, a missing
\* bookingTime becomes '19:00', a missing cuisinePreference 'Any', a missing
\* seatingPreference 'any'.
C35_DefaultsForMissing ==
    fn.op = "built" =>
        /\ fn.bookingData["numberOfGuests"] \notin DOMAIN GuestNumbers =>
              fn.out.numberOfGuests = 1
        /\ fn.bookingData["bookingTime"] = "undefined" => fn.out.bookingTime = "'19:00'"
        /\ fn.bookingData["cuisinePreference"] = "undefined" =>
              fn.out.cuisinePreference = "'Any'"
        /\ fn.bookingData["seatingPreference"] = "undefined" =>
              fn.out.seatingPreference = "'any'"

\* C35 (amended): the Booking is built from the message's bookingData alone,
\* whatever the session has stored: its party size is the number carried, or
\* 1 when that is missing, zero or non-numeric; its time is the bookingTime
\* carried, or the time carried under the name `time` when bookingTime is
\* missing or empty, or '19:00' when both are; its cuisine is the one
\* carried or 'Any'; its seating is the one carried, in lower case, or 'any'.
C35_DefaultsWithTimeAlias ==
    fn.op = "built" =>
        LET d == fn.bookingData
        IN  /\ fn.out.customerName = (IF d["customerName"] = "undefined" THEN "''"
                                      ELSE d["customerName"])
            /\ fn.out.numberOfGuests =
                  (IF d["numberOfGuests"] \in DOMAIN GuestNumbers
                   THEN GuestNumbers[d["numberOfGuests"]] ELSE 1)
            /\ fn.out.bookingTime =
                  (IF d["bookingTime"] \notin {"undefined", "''"} THEN d["bookingTime"]
                   ELSE IF d["time"] # "undefined" THEN d["time"]
                   ELSE "'19:00'")
            /\ fn.out.cuisinePreference =
                  (IF d["cuisinePreference"] \in {"undefined", "''"} THEN "'Any'"
                   ELSE d["cuisinePreference"])
            /\ fn.out.seatingPreference =
                  (CASE d["seatingPreference"] = "undefined" -> "'any'"
                     [] d["seatingPreference"] = "'Outdoor'" -> "'outdoor'"
                     [] OTHER -> d["seatingPreference"])

C35_Witness ==
    /\ fn.op = "built"
    /\ clients[1].conversationState = CompleteData
    /\ fn.bookingData["customerName"] = "undefined"
    /\ fn.bookingData["numberOfGuests"] = "0"
    /\ fn.bookingData["bookingTime"] = "undefined"
    /\ fn.bookingData["time"] = "'20:00'"
    /\ fn.out.customerName = "''"
    /\ fn.out.numberOfGuests = 1
    /\ fn.out.bookingTime = "'20:00'"
    /\ fn.out.cuisinePreference = "'Any'"
    /\ fn.out.seatingPreference = "'any'"

\* the handling of a greeting ends (it has no await: this is all of it)
GreetingEnds == last'.msg # last.msg /\ last'.type = "greeting"

\* C36: handling a greeting leaves the stored slot state of every session,
\* the bookings and the handlers in flight unchanged, appends exactly one
\* assistant entry to the history of its session and none to another's, and
\* replies with one 'greeting' whose conversationState is empty.
C36_GreetingFrame ==
    [][GreetingEnds =>
          LET c == last'.client
              h == IF c \in DOMAIN conversations THEN conversations[c] ELSE <<>>
          IN  /\ UNCHANGED <<clients, bookings, tasks, readyState>>
              /\ DOMAIN conversations' = DOMAIN conversations \cup {c}
              /\ conversations'[c] = Append(h, [role |-> "assistant", message |-> last'.msg])
              /\ \A b \in DOMAIN conversations \ {c} : conversations'[b] = conversations[b]
              /\ last'.reply.type = "greeting"
              /\ last'.reply.conversationState = EmptyState
              /\ outbox' = [outbox EXCEPT ![c] =
                               Append(@, [type |-> "greeting", msg |-> last'.msg])]]_vars

C36_Witness ==
    /\ last.type = "greeting"
    /\ last.client \in DOMAIN clients
    /\ clients[last.client].conversationState # EmptyState
    /\ last.reply.conversationState = EmptyState
    /\ Len(conversations[last.client]) > 1
    /\ conversations[last.client][Len(conversations[last.client])] =
          [role |-> "assistant", message |-> last.msg]

\* C37: a message whose handling starts after its session has been removed
\* from the registry is dropped: the step that receives it runs no handler,
\* sends nothing, starts no call and changes no state (the model counts the
\* message as received and nothing else); in particular a message received
\* while no session is registered changes nothing.
C37_RemovedSessionDrops ==
    [][/\ \A c \in Conns : \A kind \in MessageKinds :
            ReceiveRemoved(c, kind) =>
                UNCHANGED <<clients, readyState, conversations, bookings, tasks, outbox, last>>
       /\ (nmsgs' # nmsgs /\ DOMAIN clients = {}) =>
            UNCHANGED <<clients, readyState, conversations, bookings, tasks, outbox, last>>]_vars

C37_Witness ==
    /\ nmsgs = 2
    /\ readyState = [c \in {1} |-> "CLOSED"]
    /\ clients = NoMap
    /\ conversations = NoMap
    /\ tasks = NoMap
    /\ Len(outbox[1]) = 2
    /\ last.msg = 1

\* C38: nothing is sent on a connection that is not open: every step that
\* puts a message on a connection finds it open, and a handler that ends
\* after its connection has closed sends nothing at all, its reply included.
C38_NoSendUnlessOpen ==
    [][/\ \A c \in DOMAIN outbox : outbox'[c] # outbox[c] => readyState[c] = "OPEN"
       /\ (last'.msg # last.msg /\ readyState[last'.client] # "OPEN") =>
             outbox' = outbox]_vars

C38_Witness ==
    /\ last.type = "user_message"
    /\ last.reply.type = "booking_ready"
    /\ readyState[last.client] = "CLOSED"
    /\ RepliesTo(outbox, last.client, last.msg) = <<"processing">>

\* C39: the ping timer of a connection stops: a tick that finds the
\* connection no longer open sends no ping and cancels the timer, a
\* cancelled timer never ticks again, and with every timer ticking, every
\* connection that has closed eventually has no active timer.
C39_TimerStops ==
    /\ [][\A c \in DOMAIN probe :
            /\ (PingTick(c) /\ readyState[c] # "OPEN") => probe'[c] = "cleared"
            /\ probe[c] = "cleared" => probe'[c] = "cleared"
            /\ (probe'[c] = "pinged" /\ probe[c] # "pinged") => readyState[c] = "OPEN"]_vars
    /\ \A c \in Conns :
          (c \in DOMAIN readyState /\ readyState[c] # "OPEN")
              ~> (c \in DOMAIN probe /\ probe[c] = "cleared")

C39_Witness ==
    /\ {1, 2} \subseteq DOMAIN readyState
    /\ readyState[1] = "CLOSED"
    /\ probe[1] = "cleared"
    /\ readyState[2] = "OPEN"
    /\ probe[2] = "pinged"

====
